---- MODULE Spec2Model ----
(***************************************************************************)
(* Model of src/animometer.ts: the body of init() after device setup.      *)
(*                                                                         *)
(* State: the mutable `settings` object, the closure `doDraw` returned by  *)
(* the last configure() that did not throw, the frame loop's locals        *)
(* (previousFrameTimestamp, updateDisplay), the pending setTimeout         *)
(* callbacks, and what the device queue last received (the time-slot       *)
(* writeBuffer and the submitted render pass).                             *)
(*                                                                         *)
(* Numbers.  Byte counts and timestamps are integers.  A timestamp is in   *)
(* milliseconds; the float32 value written to the time slot is kept as the *)
(* exact quotient (whole seconds plus thousandths), float32 rounding is    *)
(* not modelled.  The two exponential averages of frame() are floats that  *)
(* no branch reads; they are left out, only the gate that decides when     *)
(* they are shown is modelled.                                             *)
(***************************************************************************)
EXTENDS Integers, Sequences, FiniteSets

VARIABLES
    settings,                \* {numTriangles, renderBundles, dynamicOffsets}
    doDraw,                  \* closure returned by the last successful configure()
    buffersCreated,          \* number of device.createBuffer() calls for uniform buffers
    now,                     \* host clock (ms), time of the latest callback
    previousFrameTimestamp,  \* frame(): timestamp of the previous frame
    timeWrite,               \* last writeBuffer to the time slot
    submitted,               \* last command buffer handed to queue.submit
    updateDisplay,           \* frame(): the display gate
    timers,                  \* deadlines of pending setTimeout callbacks
    displayedAt,             \* avgFrameDisplay/avgJavascript: when last written
    uploaded                 \* instance-parameter upload under study (SpecUpload)

vars == <<settings, doDraw, buffersCreated, now, previousFrameTimestamp,
          timeWrite, submitted, updateDisplay, timers, displayedAt, uploaded>>

-----------------------------------------------------------------------------
(* Bounds of the model *)

MaxTriangles == 2       \* largest instance count typed into the input
MaxBuffers == 3         \* configure() calls that reach createBuffer
MaxSteps == 1           \* timestamps: up to MaxSteps display intervals past 0 s or 1 s
MaxUploadUnits == 60    \* upload study: instance counts up to MaxUploadUnits * UploadUnit

-----------------------------------------------------------------------------
(* Values *)

Undefined == [defined |-> FALSE, value |-> 0]
Defined(v) == [defined |-> TRUE, value |-> v]

\* HTMLInputElement.valueAsNumber: a number, or NaN for an empty/invalid field
NaN == [nan |-> TRUE, value |-> 0]
Num(v) == [nan |-> FALSE, value |-> v]

Min(a, b) == IF a < b THEN a ELSE b
Max(a, b) == IF a > b THEN a ELSE b
CeilDiv(a, b) == (a + b - 1) \div b

-----------------------------------------------------------------------------
(* Program constants *)

BYTES_PER_ELEMENT == 4
MinOffsetAlignment == 256
DisplayInterval == 100
MsPerSecond == 1000

uniformBytes == 5 * BYTES_PER_ELEMENT
alignedUniformBytes == CeilDiv(uniformBytes, MinOffsetAlignment) * MinOffsetAlignment
alignedUniformFloats == alignedUniformBytes \div BYTES_PER_ELEMENT
bindingSize == 6 * BYTES_PER_ELEMENT
maxMappingLength == (14 * 1024 * 1024) \div BYTES_PER_ELEMENT

-----------------------------------------------------------------------------
(* configure(): buffer, bind groups, upload *)

\* createBuffer's size is an [EnforceRange] unsigned long long and
\* new Array(numTriangles) needs a valid length: NaN or a negative count throws
\* before anything is returned.
ConfigureThrows(numTriangles) ==
    numTriangles.nan \/ numTriangles.value < 0

UniformBufferSize(n) == n * alignedUniformBytes + BYTES_PER_ELEMENT

CreateBuffer(id, n) == [id |-> id, size |-> UniformBufferSize(n)]

CreateBindGroup(layout, buffer, offset, size) ==
    [layout |-> layout, buffer |-> buffer, offset |-> offset, size |-> size]

\* bindGroups[i] of the source is BindGroups(...)[i + 1]
BindGroups(buffer, n) ==
    [k \in 1..n |->
        CreateBindGroup("bindGroupLayout", buffer, (k - 1) * alignedUniformBytes, bindingSize)]

DynamicBindGroup(buffer) ==
    CreateBindGroup("dynamicBindGroupLayout", buffer, 0, bindingSize)

TimeOffset(n) == n * alignedUniformBytes

TimeBindGroup(buffer, n) ==
    CreateBindGroup("timeBindGroupLayout", buffer, TimeOffset(n), BYTES_PER_ELEMENT)

\* byte ranges of instance i's five floats in uniformBufferData
FieldOffset(i, f) == (alignedUniformFloats * i + f) * BYTES_PER_ELEMENT

UploadCountAll(length, offset) == maxMappingLength
UploadCount(length, offset) == Min(length - offset, maxMappingLength)

WriteBufferCall(buffer, length, offset) ==
    [buffer |-> buffer,
     bufferOffset |-> offset * BYTES_PER_ELEMENT,
     dataOffset |-> 0 + offset * BYTES_PER_ELEMENT,
     size |-> UploadCount(length, offset) * BYTES_PER_ELEMENT]

RECURSIVE UploadFrom(_, _, _)
UploadFrom(buffer, length, offset) ==
    IF offset < length
    THEN <<WriteBufferCall(buffer, length, offset)>>
            \o UploadFrom(buffer, length, offset + maxMappingLength)
    ELSE <<>>

\* the writeBuffer calls of the upload loop, in emission order
UploadWrites(buffer, length) == UploadFrom(buffer, length, 0)

-----------------------------------------------------------------------------
(* recordRenderPass *)

SetPipeline(p) == [op |-> "setPipeline", pipeline |-> p]
SetVertexBuffer == [op |-> "setVertexBuffer", slot |-> 0, buffer |-> "vertexBuffer"]
SetBindGroup(index, bg, offsets) ==
    [op |-> "setBindGroup", index |-> index, bindGroup |-> bg, dynamicOffsets |-> offsets]
Draw == [op |-> "draw", vertexCount |-> 3, instanceCount |-> 1,
         firstVertex |-> 0, firstInstance |-> 0]

DynamicOffsetUnaligned(i) == i * uniformBytes
DynamicOffset(i) == i * alignedUniformBytes

InstanceCommands(c, dyn, i) ==
    << IF dyn
       THEN SetBindGroup(1, c.dynamicBindGroup, <<DynamicOffset(i)>>)
       ELSE SetBindGroup(1, c.bindGroups[i + 1], <<>>),
       Draw >>

RECURSIVE InstanceLoop(_, _, _)
InstanceLoop(c, dyn, i) ==
    IF i < c.numTriangles
    THEN InstanceCommands(c, dyn, i) \o InstanceLoop(c, dyn, i + 1)
    ELSE <<>>

RecordRenderPassTimeLast(c, dyn) ==
    << SetPipeline(IF dyn THEN "dynamicPipeline" ELSE "pipeline"),
       SetVertexBuffer >>
    \o InstanceLoop(c, dyn, 0)
    \o << SetBindGroup(0, c.timeBindGroup, <<>>) >>

\* c: the enclosing configure() call's constants; dyn: settings.dynamicOffsets
\* as read when the function runs
RecordRenderPass(c, dyn) ==
    << SetPipeline(IF dyn THEN "dynamicPipeline" ELSE "pipeline"),
       SetVertexBuffer,
       SetBindGroup(0, c.timeBindGroup, <<>>) >>
    \o InstanceLoop(c, dyn, 0)

ConfigureKeepBuffer(s, id) ==
    LET n == s.numTriangles.value
        buffer == CreateBuffer(Max(id - 1, 0), n)
        c == [numTriangles |-> n,
              uniformBuffer |-> CreateBuffer(id, n),
              bindGroups |-> BindGroups(buffer, n),
              dynamicBindGroup |-> DynamicBindGroup(buffer),
              timeOffset |-> TimeOffset(n),
              timeBindGroup |-> TimeBindGroup(buffer, n),
              writes |-> UploadWrites(buffer, n * alignedUniformFloats),
              startTime |-> Undefined,
              renderBundle |-> <<>>]
    IN [c EXCEPT !.renderBundle = RecordRenderPass(c, s.dynamicOffsets)]

\* the closure configure() returns when it does not throw; id names the
\* buffer createBuffer hands out
Configure(s, id) ==
    LET n == s.numTriangles.value
        buffer == CreateBuffer(id, n)
        c == [numTriangles |-> n,
              uniformBuffer |-> buffer,
              bindGroups |-> BindGroups(buffer, n),
              dynamicBindGroup |-> DynamicBindGroup(buffer),
              timeOffset |-> TimeOffset(n),
              timeBindGroup |-> TimeBindGroup(buffer, n),
              writes |-> UploadWrites(buffer, n * alignedUniformFloats),
              startTime |-> Undefined,
              renderBundle |-> <<>>]
    IN [c EXCEPT !.renderBundle = RecordRenderPass(c, s.dynamicOffsets)]

-----------------------------------------------------------------------------
(* doDraw *)

Seconds(ms) == [whole |-> ms \div MsPerSecond, thousandths |-> ms % MsPerSecond]

ElapsedAbsolute(timestamp, startTime) == Seconds(timestamp)
Elapsed(timestamp, startTime) == Seconds(timestamp - startTime)

\* what the pass encoder receives: the bundle's commands or a fresh recording
PassCommands(c, s) ==
    IF s.renderBundles
    THEN [via |-> "executeBundles", commands |-> c.renderBundle]
    ELSE [via |-> "direct", commands |-> RecordRenderPass(c, s.dynamicOffsets)]

StartTimeAfter(c, timestamp) ==
    IF c.startTime.defined THEN c.startTime ELSE Defined(timestamp)

-----------------------------------------------------------------------------
(* Inputs *)

InitialTriangles == MaxTriangles    \* settings.numTriangles starts at 20000, scaled to the bound
Counts == {NaN} \cup {Num(v) : v \in -1..MaxTriangles}
Timestamps == {i * DisplayInterval + j * MsPerSecond : i \in 0..MaxSteps, j \in {0, 1}}

\* one seventh of the instance count whose parameters fill one transfer exactly
UploadUnit == maxMappingLength \div (7 * alignedUniformFloats)
UploadCounts == {k * UploadUnit + j : k \in 0..MaxUploadUnits, j \in {0, 1}}

NoWrite == [buffer |-> [id |-> 0, size |-> 0], offset |-> 0, value |-> Seconds(0), issued |-> FALSE]
NoSubmit == [via |-> "none", commands |-> <<>>]
NoUpload == [length |-> 0, writes |-> <<>>, done |-> FALSE]

Init ==
    /\ settings = [numTriangles |-> Num(InitialTriangles),
                   renderBundles |-> FALSE,
                   dynamicOffsets |-> FALSE]
    /\ doDraw = Configure(settings, 0)
    /\ buffersCreated = 1
    /\ now = 0
    /\ previousFrameTimestamp = Undefined
    /\ timeWrite = NoWrite
    /\ submitted = NoSubmit
    /\ updateDisplay = TRUE
    /\ timers = {}
    /\ displayedAt = Undefined
    /\ uploaded = NoUpload

-----------------------------------------------------------------------------
(* Event handlers *)

\* updateSettings(): doDraw = configure(); a throw leaves doDraw as it was
UpdateSettings(s) ==
    IF ConfigureThrows(s.numTriangles)
    THEN /\ doDraw' = doDraw
         /\ buffersCreated' = buffersCreated
    ELSE /\ doDraw' = Configure(s, buffersCreated)
         /\ buffersCreated' = buffersCreated + 1

CanConfigure == buffersCreated < MaxBuffers

NumTrianglesChange(v) ==
    /\ CanConfigure
    /\ settings' = [settings EXCEPT !.numTriangles = v]
    /\ UpdateSettings(settings')
    /\ UNCHANGED <<now, previousFrameTimestamp, timeWrite, submitted,
                   updateDisplay, timers, displayedAt, uploaded>>

DynamicOffsetsInput ==
    /\ CanConfigure
    /\ settings' = [settings EXCEPT !.dynamicOffsets = ~settings.dynamicOffsets]
    /\ UpdateSettings(settings')
    /\ UNCHANGED <<now, previousFrameTimestamp, timeWrite, submitted,
                   updateDisplay, timers, displayedAt, uploaded>>

RenderBundlesInput ==
    /\ CanConfigure
    /\ settings' = [settings EXCEPT !.renderBundles = ~settings.renderBundles]
    /\ UpdateSettings(settings')
    /\ UNCHANGED <<now, previousFrameTimestamp, timeWrite, submitted,
                   updateDisplay, timers, displayedAt, uploaded>>

GateAfterDisplayOpen == TRUE
GateAfterDisplay == FALSE

\* frame(timestamp), with the doDraw(timestamp) it calls
Frame(timestamp) ==
    /\ timestamp >= now
    /\ now' = timestamp
    /\ previousFrameTimestamp' = Defined(timestamp)
    /\ doDraw' = [doDraw EXCEPT !.startTime = StartTimeAfter(doDraw, timestamp)]
    /\ timeWrite' = [buffer |-> doDraw.uniformBuffer,
                     offset |-> doDraw.timeOffset,
                     value |-> Elapsed(timestamp, doDraw'.startTime.value),
                     issued |-> TRUE]
    /\ submitted' = PassCommands(doDraw, settings)
    /\ IF updateDisplay
       THEN /\ displayedAt' = Defined(timestamp)
            /\ updateDisplay' = GateAfterDisplay
            /\ timers' = timers \cup {timestamp + DisplayInterval}
       ELSE UNCHANGED <<displayedAt, updateDisplay, timers>>
    /\ UNCHANGED <<settings, buffersCreated, uploaded>>

\* the setTimeout callback; it runs no earlier than its deadline
TimerFires(deadline) ==
    /\ deadline \in timers
    /\ now' = Max(now, deadline)
    /\ updateDisplay' = TRUE
    /\ timers' = timers \ {deadline}
    /\ UNCHANGED <<settings, doDraw, buffersCreated, previousFrameTimestamp,
                   timeWrite, submitted, displayedAt, uploaded>>

Next ==
    \/ \E v \in Counts : NumTrianglesChange(v)
    \/ DynamicOffsetsInput
    \/ RenderBundlesInput
    \/ \E t \in Timestamps : Frame(t)
    \/ \E d \in timers : TimerFires(d)

Spec == Init /\ [][Next]_vars

-----------------------------------------------------------------------------
(* The upload loop on its own, for instance counts beyond the 14 MiB ceiling *)

UploadUniforms(n) ==
    /\ uploaded' = [length |-> n * alignedUniformFloats,
                    writes |-> UploadWrites(CreateBuffer(0, n), n * alignedUniformFloats),
                    done |-> TRUE]
    /\ UNCHANGED <<settings, doDraw, buffersCreated, now, previousFrameTimestamp,
                   timeWrite, submitted, updateDisplay, timers, displayedAt>>

NextUpload == \E n \in UploadCounts : UploadUniforms(n)

SpecUpload == Init /\ [][NextUpload]_vars

-----------------------------------------------------------------------------
(* Observations used by the properties *)

\* every bind group the active draw function can reach: the closure's own and
\* those captured in its render bundle
BundleBindGroups(c) ==
    {c.renderBundle[k].bindGroup :
        k \in {j \in 1..Len(c.renderBundle) : c.renderBundle[j].op = "setBindGroup"}}

LiveBindGroups(c) ==
    {c.bindGroups[k] : k \in 1..Len(c.bindGroups)}
        \cup {c.dynamicBindGroup, c.timeBindGroup}
        \cup BundleBindGroups(c)

\* the buffer bytes a group-1 bind exposes to the draw that follows it
BoundRange(cmd) ==
    LET base == cmd.bindGroup.offset
                  + (IF cmd.dynamicOffsets = <<>> THEN 0 ELSE cmd.dynamicOffsets[1])
    IN [buffer |-> cmd.bindGroup.buffer, from |-> base, to |-> base + cmd.bindGroup.size]

IsGroup1Bind(cmd) == cmd.op = "setBindGroup" /\ cmd.index = 1
Group1Binds(cmds) == SelectSeq(cmds, IsGroup1Bind)

InstanceRange(c, i) ==
    [buffer |-> c.uniformBuffer, from |-> i * 256, to |-> i * 256 + 24]

SecondsLeq(a, b) ==
    \/ a.whole < b.whole
    \/ a.whole = b.whole /\ a.thousandths <= b.thousandths

TickPossible == \E t \in Timestamps : t >= now

-----------------------------------------------------------------------------
(* C1 *)

\* C1: whenever the active draw function can be ticked, the command sequence
\* captured in its render bundle equals the sequence recordRenderPass emits on
\* the pass encoder at that tick, also after settings changes whose
\* configure() threw.
BundleEqualsDirectRecording ==
    TickPossible =>
        doDraw.renderBundle = RecordRenderPass(doDraw, settings.dynamicOffsets)

-----------------------------------------------------------------------------
(* C2 *)

\* C2: for every instance i of the active configuration, draw i is bound to
\* the same buffer bytes [i*256, i*256+24) whether the pass is recorded with
\* static bind groups or with the dynamic bind group and offset i*256; the
\* bundle held by the draw function exposes these same ranges.
SameRangeInBothBindingModes ==
    LET static == Group1Binds(RecordRenderPass(doDraw, FALSE))
        dynamic == Group1Binds(RecordRenderPass(doDraw, TRUE))
        bundled == Group1Binds(doDraw.renderBundle)
    IN /\ Len(static) = doDraw.numTriangles
       /\ Len(dynamic) = doDraw.numTriangles
       /\ Len(bundled) = doDraw.numTriangles
       /\ \A i \in 0..(doDraw.numTriangles - 1) :
            /\ static[i + 1].dynamicOffsets = <<>>
            /\ dynamic[i + 1].dynamicOffsets = <<i * 256>>
            /\ dynamic[i + 1].bindGroup.offset = 0
            /\ BoundRange(static[i + 1]) = InstanceRange(doDraw, i)
            /\ BoundRange(dynamic[i + 1]) = BoundRange(static[i + 1])
            /\ BoundRange(bundled[i + 1]) = InstanceRange(doDraw, i)

\* a frame has replayed a bundle recorded with dynamic offsets for two or more instances
DynamicBundleSubmitted ==
    /\ doDraw.numTriangles >= 2
    /\ submitted.via = "executeBundles"
    /\ submitted.commands = doDraw.renderBundle
    /\ doDraw.renderBundle[1].pipeline = "dynamicPipeline"

-----------------------------------------------------------------------------
(* C3 *)

-----------------------------------------------------------------------------
(* C4 *)

\* C4: a settings change whose instance count is negative or NaN is rejected
\* and leaves what a tick draws exactly as it was before the change.
RejectedChangeKeepsDrawing ==
    [][(settings' # settings /\ ConfigureThrows(settings'.numTriangles))
          => /\ doDraw' = doDraw
             /\ PassCommands(doDraw', settings') = PassCommands(doDraw, settings)]_vars

-----------------------------------------------------------------------------
(* C5 *)

\* C5: every draw function starts with no start time; its first tick, at
\* timestamp t0, records startTime = t0 and writes 0 to the time slot whatever
\* t0 is; every later tick of it, at timestamp t, keeps startTime and writes
\* (t - t0)/1000 seconds, a repeated timestamp included.
FirstTickIsZeroLaterTicksElapsed ==
    /\ ~doDraw.startTime.defined
    /\ [][/\ doDraw'.uniformBuffer # doDraw.uniformBuffer => ~doDraw'.startTime.defined
          /\ \A t \in Timestamps : Frame(t) =>
                /\ timeWrite'.issued
                /\ timeWrite'.buffer = doDraw.uniformBuffer
                /\ timeWrite'.offset = doDraw.numTriangles * 256
                /\ timeWrite'.value.thousandths \in 0..999
                /\ IF doDraw.startTime.defined
                   THEN /\ doDraw'.startTime = doDraw.startTime
                        /\ timeWrite'.value.whole * 1000 + timeWrite'.value.thousandths
                              = t - doDraw.startTime.value
                   ELSE /\ doDraw'.startTime = Defined(t)
                        /\ timeWrite'.value = [whole |-> 0, thousandths |-> 0]]_vars

\* a draw function first ticked at t0 = 100 has been ticked at t0 + 1000 and wrote 1.0
OneSecondAfterLateStart ==
    /\ doDraw.startTime = Defined(100)
    /\ now = 1100
    /\ timeWrite.issued
    /\ timeWrite.buffer = doDraw.uniformBuffer
    /\ timeWrite.value = [whole |-> 1, thousandths |-> 0]

-----------------------------------------------------------------------------
(* C6 *)

\* C6: the time written at a tick is the time since the run's first tick, so
\* from one tick to the next (timestamps never decrease) the written time
\* never decreases, reconfigurations in between included.
WrittenTimeNeverDecreases ==
    [][(timeWrite.issued /\ timeWrite'.issued)
          => SecondsLeq(timeWrite.value, timeWrite'.value)]_vars

-----------------------------------------------------------------------------
(* C7 *)

\* the writes tile bytes [0, 4 * length) in ascending order
TilesPayload(writes, length) ==
    /\ (length = 0) = (writes = <<>>)
    /\ \A k \in 1..Len(writes) :
          /\ writes[k].size > 0
          /\ writes[k].size <= 14 * 1024 * 1024
          /\ writes[k].dataOffset = writes[k].bufferOffset
          /\ writes[k].bufferOffset + writes[k].size <= 4 * length
          /\ writes[k].bufferOffset =
                (IF k = 1 THEN 0 ELSE writes[k - 1].bufferOffset + writes[k - 1].size)
    /\ length > 0 =>
          writes[Len(writes)].bufferOffset + writes[Len(writes)].size = 4 * length

\* C7: the writeBuffer transfers of the upload loop ascend from offset 0, each
\* is at most 14 MiB, copies source bytes [o, o+len) to destination bytes
\* [o, o+len), starts where the previous one ended, and the last one ends at
\* the payload's end: every payload byte is written exactly once and none
\* beyond it.
UploadCoversPayloadOnce ==
    /\ uploaded.done => TilesPayload(uploaded.writes, uploaded.length)
    /\ TilesPayload(doDraw.writes, doDraw.numTriangles * 64)

\* a payload that needed three or more transfers, the last one short
ChunkedUploadWithShortTail ==
    /\ uploaded.done
    /\ Len(uploaded.writes) >= 3
    /\ uploaded.writes[Len(uploaded.writes)].size < 14 * 1024 * 1024
    /\ uploaded.writes[1].size = 14 * 1024 * 1024

-----------------------------------------------------------------------------
(* C8 *)

\* cmds is: pipeline bind, vertex-buffer bind, time bind at group 0, then per
\* instance in ascending order its group-1 bind followed by draw(3, 1, 0, 0)
FrameSequenceShape(cmds, c, dyn) ==
    /\ Len(cmds) = 3 + 2 * c.numTriangles
    /\ cmds[1] = [op |-> "setPipeline",
                  pipeline |-> IF dyn THEN "dynamicPipeline" ELSE "pipeline"]
    /\ cmds[2].op = "setVertexBuffer"
    /\ cmds[3].op = "setBindGroup"
    /\ cmds[3].index = 0
    /\ cmds[3].bindGroup = c.timeBindGroup
    /\ cmds[3].bindGroup.layout = "timeBindGroupLayout"
    /\ \A i \in 0..(c.numTriangles - 1) :
          /\ cmds[4 + 2 * i].op = "setBindGroup"
          /\ cmds[4 + 2 * i].index = 1
          /\ cmds[4 + 2 * i].bindGroup.layout =
                (IF dyn THEN "dynamicBindGroupLayout" ELSE "bindGroupLayout")
          /\ cmds[4 + 2 * i].bindGroup =
                (IF dyn THEN c.dynamicBindGroup ELSE c.bindGroups[i + 1])
          /\ BoundRange(cmds[4 + 2 * i]) = InstanceRange(c, i)
          /\ cmds[5 + 2 * i] = [op |-> "draw", vertexCount |-> 3, instanceCount |-> 1,
                                firstVertex |-> 0, firstInstance |-> 0]
    /\ Cardinality({k \in 1..Len(cmds) : cmds[k].op = "draw"}) = c.numTriangles
    /\ Cardinality({k \in 1..Len(cmds) : cmds[k].op = "setPipeline"}) = 1

\* C8: every recorded sequence has the shape above.  The bundle recorded by
\* configure() has it for the dynamicOffsets setting of that moment, a direct
\* recording at a tick has it for the setting at the tick, and what a tick
\* submits is one of these two.
RecordedSequencesHaveTheShape ==
    /\ FrameSequenceShape(doDraw.renderBundle, doDraw, settings.dynamicOffsets)
    /\ [](\E dyn \in BOOLEAN : FrameSequenceShape(doDraw.renderBundle, doDraw, dyn))
    /\ [][/\ doDraw'.uniformBuffer # doDraw.uniformBuffer =>
                FrameSequenceShape(doDraw'.renderBundle, doDraw', settings'.dynamicOffsets)
          /\ \A t \in Timestamps : Frame(t) =>
                IF settings.renderBundles
                THEN /\ submitted'.via = "executeBundles"
                     /\ submitted'.commands = doDraw.renderBundle
                ELSE /\ submitted'.via = "direct"
                     /\ FrameSequenceShape(submitted'.commands, doDraw,
                                           settings.dynamicOffsets)]_vars

\* a tick has recorded a pass directly, with dynamic offsets, for the largest count
DirectDynamicPassSubmitted ==
    /\ submitted.via = "direct"
    /\ settings.dynamicOffsets
    /\ doDraw.numTriangles = MaxTriangles
    /\ Len(submitted.commands) = 3 + 2 * MaxTriangles
    /\ submitted.commands[1].pipeline = "dynamicPipeline"

-----------------------------------------------------------------------------
(* C9 *)

\* C9: a frame updates the display only while the gate is open and then at
\* least 100 ms after the previous update; while the gate is closed exactly
\* the timer armed by the last update is pending; once it has fired none is.
DisplayUpdatesAreThrottled ==
    /\ [](/\ Cardinality(timers) <= 1
          /\ updateDisplay => timers = {}
          /\ (updateDisplay /\ displayedAt.defined) => now >= displayedAt.value + 100
          /\ ~updateDisplay => (displayedAt.defined /\ timers = {displayedAt.value + 100}))
    /\ [][\A t \in Timestamps : Frame(t) =>
             IF updateDisplay
             THEN /\ displayedAt' = Defined(t)
                  /\ displayedAt.defined => t - displayedAt.value >= 100
             ELSE displayedAt' = displayedAt]_vars

\* the display was updated at 0 and again at 1000, and a later frame found the gate closed
SecondUpdateThenGatedFrame ==
    /\ doDraw.startTime = Defined(0)
    /\ displayedAt = Defined(1000)
    /\ previousFrameTimestamp.defined
    /\ previousFrameTimestamp.value > displayedAt.value
    /\ ~updateDisplay

-----------------------------------------------------------------------------
(* C10 *)

RangesDisjoint(a, b) == a.offset + a.size <= b.offset \/ b.offset + b.size <= a.offset

\* C10: for every accepted count N (0 included) the buffer is N*256 + 4 bytes,
\* 256 being the smallest multiple of 256 that holds the 20-byte struct;
\* instance i's five floats lie in [i*256, i*256+20); every bind-group range
\* lies within the buffer; the static ranges are pairwise disjoint and
\* disjoint from the time slot; slots and time slot fill the buffer exactly.
UniformBufferLayout ==
    LET n == doDraw.numTriangles
        size == doDraw.uniformBuffer.size
    IN /\ alignedUniformBytes % 256 = 0
       /\ alignedUniformBytes >= 20
       /\ alignedUniformBytes - 256 < 20
       /\ size = n * alignedUniformBytes + 4
       /\ \A i \in 0..(n - 1) : \A f \in 0..4 :
             /\ FieldOffset(i, f) >= i * alignedUniformBytes
             /\ FieldOffset(i, f) + 4 <= i * alignedUniformBytes + 20
       /\ \A bg \in LiveBindGroups(doDraw) :
             /\ bg.offset >= 0
             /\ bg.offset + bg.size <= size
       /\ \A j, k \in 1..n :
             j # k => RangesDisjoint(doDraw.bindGroups[j], doDraw.bindGroups[k])
       /\ \A k \in 1..n : RangesDisjoint(doDraw.bindGroups[k], doDraw.timeBindGroup)
       /\ doDraw.timeBindGroup.offset = n * alignedUniformBytes
       /\ doDraw.timeBindGroup.offset + doDraw.timeBindGroup.size = size

====
